---------------------------- MODULE Spec2Model ----------------------------
(***************************************************************************)
(* Model of iox::posix::UnixDomainSocket                                   *)
(* (iceoryx_utils/source/posix_wrapper/unix_domain_socket.cpp).            *)
(*                                                                         *)
(* The state is a set of endpoint objects (the C++ objects, with their     *)
(* member fields) and the part of the kernel they act on: the descriptor   *)
(* table, the sockets behind the descriptors, and the filesystem nodes at  *)
(* the socket paths.  Every member function is one action; the system      *)
(* calls it makes are operators on the kernel record, applied in the       *)
(* order of the code.                                                      *)
(***************************************************************************)
EXTENDS Integers, Sequences, FiniteSets, TLC

(***************************************************************************)
(* Bounds of the model.                                                    *)
(***************************************************************************)
\* number of endpoint objects that can exist at the same time
NumObj == 2
\* number of datagrams a socket buffers before sendto blocks
MaxQueue == 1
\* number of close() calls that report an error in one run
MaxCloseErrors == 1

(***************************************************************************)
(* Constants of the class, as unix_domain_socket.hpp declares them.        *)
(***************************************************************************)
MAX_MESSAGE_SIZE == 4096
SHORTEST_VALID_NAME == 2
LONGEST_VALID_NAME == 100
INVALID_FD == -1
\* sizeof(sockaddr_un::sun_path)
SunPathSize == 108

Obj == 1 .. NumObj
\* the descriptors the kernel hands out before socket() fails with EMFILE:
\* as many as there can be objects
Fd == 0 .. (NumObj - 1)

(***************************************************************************)
(* Strings are sequences of character codes; 0 is the NUL character.       *)
(***************************************************************************)
NUL == 0
Fill(n, c) == [i \in 1 .. n |-> c]

NameFoo == <<47, 102>>
NameBar == <<47, 98>>
NameEmpty == <<>>
NameTooLong == Fill(LONGEST_VALID_NAME + 1, 102)
\* a name below SHORTEST_VALID_NAME
NameShort == <<102>>
\* the names handed to the constructors
Names == {NameFoo, NameBar, NameEmpty, NameTooLong}

\* PATH_PREFIX, "/tmp/", and the capacity of UdsName_t, a
\* cxx::string<LONGEST_VALID_NAME>, as unix_domain_socket.hpp declares them
PATH_PREFIX == <<47, 116, 109, 112, 47>>
UdsNameCapacity == LONGEST_VALID_NAME

\* s.append(TruncateToCapacity, t) on a UdsName_t, lines 51 and 141: the
\* characters that do not fit are dropped
AppendTruncate(s, t) ==
    IF Len(s) + Len(t) > UdsNameCapacity
    THEN SubSeq(s \o t, 1, UdsNameCapacity)
    ELSE s \o t

\* the logical names handed to the prefixed variants: "ab", and two names of
\* 96 characters that differ in their last character
LogicalAb == <<97, 98>>
LogicalLongB == Fill(95, 97) \o <<98>>
LogicalLongC == Fill(95, 97) \o <<99>>
LogicalNames == {LogicalAb, LogicalLongB, LogicalLongC}

\* the paths a socket can be bound to
Paths == {NameFoo, NameBar} \cup {AppendTruncate(PATH_PREFIX, n) : n \in LogicalNames}
\* the directories of the filesystem
Directories == {PATH_PREFIX}

\* the messages handed to send: "a", and the payloads of 127 and 128 bytes,
\* at the boundary of maxMsgSize = 128
MsgA == <<97>>
Msg127 == Fill(127, 97)
Msg128 == Fill(128, 97)
Messages == {MsgA, Msg127, Msg128}

\* the maxMsgSize arguments handed to the constructors
MsgSizes == {128, MAX_MESSAGE_SIZE + 1}

\* a units::Duration: zero or not
Timeouts == {0, 1}

Sides == {"SERVER", "CLIENT"}
Modes == {"BLOCKING", "NON_BLOCKING"}

(***************************************************************************)
(* isNameValid, lines 546-549.                                             *)
(***************************************************************************)
\* a variant of isNameValid without the lower bound
isNameValidWithoutShortest(name) ==
    ~(name = <<>> \/ Len(name) > LONGEST_VALID_NAME)

isNameValid(name) ==
    ~(name = <<>> \/ Len(name) < SHORTEST_VALID_NAME \/ Len(name) > LONGEST_VALID_NAME)

(***************************************************************************)
(* createErrorFromErrnum, lines 441-544: the IpcChannelError of an errno,  *)
(* and whether the default branch wrote its diagnostic to std::cerr.       *)
(* EAGAIN and EWOULDBLOCK are the same number on the supported platforms.  *)
(***************************************************************************)
\* a variant of ErrnumError whose switch has no case for EROFS
ErrnumErrorWithoutEROFS(errnum) ==
    CASE errnum = "EACCES" -> "ACCESS_DENIED"
      [] errnum \in {"EAFNOSUPPORT", "EINVAL", "EPROTONOSUPPORT", "ENOPROTOOPT"}
             -> "INVALID_ARGUMENTS"
      [] errnum = "EMFILE" -> "PROCESS_LIMIT"
      [] errnum = "ENFILE" -> "SYSTEM_LIMIT"
      [] errnum \in {"ENOBUFS", "ENOMEM"} -> "OUT_OF_MEMORY"
      [] errnum = "EADDRINUSE" -> "CHANNEL_ALREADY_EXISTS"
      [] errnum \in {"EBADF", "ENOTSOCK"} -> "INVALID_FILE_DESCRIPTOR"
      [] errnum \in {"EADDRNOTAVAIL", "EFAULT", "ELOOP", "ENAMETOOLONG", "ENOTDIR"}
             -> "INVALID_CHANNEL_NAME"
      [] errnum \in {"ENOENT", "ECONNREFUSED"} -> "NO_SUCH_CHANNEL"
      [] errnum = "EIO" -> "I_O_ERROR"
      [] errnum = "ECONNRESET" -> "CONNECTION_RESET_BY_PEER"
      [] errnum \in {"EWOULDBLOCK", "EAGAIN"} -> "TIMEOUT"
      [] OTHER -> "INTERNAL_LOGIC_ERROR"

ErrnumError(errnum) ==
    CASE errnum = "EACCES" -> "ACCESS_DENIED"
      [] errnum = "EAFNOSUPPORT" -> "INVALID_ARGUMENTS"
      [] errnum = "EINVAL" -> "INVALID_ARGUMENTS"
      [] errnum = "EMFILE" -> "PROCESS_LIMIT"
      [] errnum = "ENFILE" -> "SYSTEM_LIMIT"
      [] errnum = "ENOBUFS" -> "OUT_OF_MEMORY"
      [] errnum = "ENOMEM" -> "OUT_OF_MEMORY"
      [] errnum = "EPROTONOSUPPORT" -> "INVALID_ARGUMENTS"
      [] errnum = "EADDRINUSE" -> "CHANNEL_ALREADY_EXISTS"
      [] errnum = "EBADF" -> "INVALID_FILE_DESCRIPTOR"
      [] errnum = "ENOTSOCK" -> "INVALID_FILE_DESCRIPTOR"
      [] errnum = "EADDRNOTAVAIL" -> "INVALID_CHANNEL_NAME"
      [] errnum = "EFAULT" -> "INVALID_CHANNEL_NAME"
      [] errnum = "ELOOP" -> "INVALID_CHANNEL_NAME"
      [] errnum = "ENAMETOOLONG" -> "INVALID_CHANNEL_NAME"
      [] errnum = "ENOTDIR" -> "INVALID_CHANNEL_NAME"
      [] errnum = "ENOENT" -> "NO_SUCH_CHANNEL"
      [] errnum = "EROFS" -> "INVALID_CHANNEL_NAME"
      [] errnum = "EIO" -> "I_O_ERROR"
      [] errnum = "ENOPROTOOPT" -> "INVALID_ARGUMENTS"
      [] errnum = "ECONNREFUSED" -> "NO_SUCH_CHANNEL"
      [] errnum = "ECONNRESET" -> "CONNECTION_RESET_BY_PEER"
      [] errnum = "EWOULDBLOCK" -> "TIMEOUT"
      [] errnum = "EAGAIN" -> "TIMEOUT"
      [] OTHER -> "INTERNAL_LOGIC_ERROR"

\* a variant of createErrorFromErrnum that writes a diagnostic for every errno
createErrorFromErrnumAlwaysLogs(errnum) ==
    [err |-> ErrnumError(errnum), diag |-> TRUE]

createErrorFromErrnum(errnum) ==
    [err |-> ErrnumError(errnum), diag |-> ErrnumError(errnum) = "INTERNAL_LOGIC_ERROR"]

\* the errno values handed to createErrorFromErrnum: those its switch names
\* and some it does not
Errnos ==
    {"EACCES", "EAFNOSUPPORT", "EINVAL", "EMFILE", "ENFILE", "ENOBUFS", "ENOMEM",
     "EPROTONOSUPPORT", "EADDRINUSE", "EBADF", "ENOTSOCK", "EADDRNOTAVAIL", "EFAULT",
     "ELOOP", "ENAMETOOLONG", "ENOTDIR", "ENOENT", "EROFS", "EIO", "ENOPROTOOPT",
     "ECONNREFUSED", "ECONNRESET", "EWOULDBLOCK", "EAGAIN",
     "EINTR", "EPERM", "EPIPE", "EMSGSIZE", "EDESTADDRREQ", "ENOTCONN", "EISCONN"}


(***************************************************************************)
(* The kernel.  K is a record:                                             *)
(*   open      the descriptors that are open; each is one datagram socket  *)
(*   nodes     the paths at which a filesystem node exists                 *)
(*   nodeSock  for a path, the socket bound to its node ({} when the node  *)
(*             is stale or absent)                                         *)
(*   conn      the descriptors on which connect succeeded                  *)
(*   peer      for a connected descriptor, the socket it sends to ({} once *)
(*             that socket is gone)                                        *)
(*   queue     for a descriptor, the datagrams waiting to be received      *)
(*   sndtimeo  the descriptors whose SO_SNDTIMEO is not zero               *)
(*   rcvtimeo  the descriptors whose SO_RCVTIMEO is not zero               *)
(* A datagram is a record: bytes is what the kernel carries, sent is the   *)
(* std::string the sender passed (kept to state the round trip).           *)
(***************************************************************************)
InitKernel ==
    [open |-> {},
     nodes |-> {},
     nodeSock |-> [p \in Paths |-> {}],
     conn |-> {},
     peer |-> [f \in Fd |-> {}],
     queue |-> [f \in Fd |-> <<>>],
     sndtimeo |-> {},
     rcvtimeo |-> {}]

\* the descriptor is gone: its node turns stale, its peers lose their target
Release(K, fd) ==
    [K EXCEPT !.open = @ \ {fd},
              !.nodeSock = [p \in Paths |-> @[p] \ {fd}],
              !.conn = @ \ {fd},
              !.peer = [f \in Fd |-> IF f = fd THEN {} ELSE @[f] \ {fd}],
              !.queue[fd] = <<>>,
              !.sndtimeo = @ \ {fd},
              !.rcvtimeo = @ \ {fd}]

\* socket(AF_LOCAL, SOCK_DGRAM, 0): the lowest free descriptor, or EMFILE
SysSocket(K) ==
    IF K.open = Fd
    THEN [K |-> K, ret |-> INVALID_FD, errnum |-> "EMFILE"]
    ELSE LET fd == CHOOSE f \in Fd \ K.open : \A g \in Fd \ K.open : f <= g
         IN  [K |-> [K EXCEPT !.open = @ \cup {fd}], ret |-> fd, errnum |-> "OK"]

\* unlink(path)
SysUnlink(K, path) ==
    IF path \in K.nodes
    THEN [K |-> [K EXCEPT !.nodes = @ \ {path}, !.nodeSock[path] = {}], errnum |-> "OK"]
    ELSE [K |-> K, errnum |-> "ENOENT"]

\* unlink(path) whose errno the caller reads: a directory is not unlinked
\* (EPERM), and outcome "EACCES" is the caller lacking the permission to
\* remove an existing node
SysUnlinkOutcome(K, path, outcome) ==
    IF path \in Directories THEN [K |-> K, errnum |-> "EPERM"]
    ELSE IF path \in K.nodes /\ outcome # "OK" THEN [K |-> K, errnum |-> outcome]
    ELSE SysUnlink(K, path)

\* bind(fd, path); outcome "ENOMEM" is the kernel running out of memory
SysBind(K, fd, path, outcome) ==
    IF fd \notin K.open THEN [K |-> K, errnum |-> "EBADF"]
    ELSE IF path \in K.nodes THEN [K |-> K, errnum |-> "EADDRINUSE"]
    ELSE IF outcome # "OK" THEN [K |-> K, errnum |-> outcome]
    ELSE [K |-> [K EXCEPT !.nodes = @ \cup {path}, !.nodeSock[path] = {fd}],
          errnum |-> "OK"]

\* connect(fd, path)
SysConnect(K, fd, path) ==
    IF fd \notin K.open THEN [K |-> K, errnum |-> "EBADF"]
    ELSE IF path \notin K.nodes THEN [K |-> K, errnum |-> "ENOENT"]
    ELSE IF K.nodeSock[path] = {} THEN [K |-> K, errnum |-> "ECONNREFUSED"]
    ELSE [K |-> [K EXCEPT !.conn = @ \cup {fd}, !.peer[fd] = K.nodeSock[path]],
          errnum |-> "OK"]

\* close(fd).  outcome is what the platform does: "OK"; "EIO", an error
\* reported after the descriptor was released (Linux); "EINTR", an error
\* that leaves the descriptor open (its state is unspecified by POSIX).
SysClose(K, fd, outcome) ==
    IF fd \notin K.open THEN [K |-> K, errnum |-> "EBADF"]
    ELSE IF outcome = "EINTR" THEN [K |-> K, errnum |-> "EINTR"]
    ELSE [K |-> Release(K, fd), errnum |-> outcome]

\* a variant of SysSetsockopt in which a zero tv leaves the option as it is
SysSetsockoptKeepsNonZero(K, fd, option, tv) ==
    IF fd \notin K.open THEN [K |-> K, errnum |-> "EBADF"]
    ELSE IF option = "SO_SNDTIMEO"
    THEN [K |-> [K EXCEPT !.sndtimeo = IF tv = 0 THEN @ ELSE @ \cup {fd}],
          errnum |-> "OK"]
    ELSE [K |-> [K EXCEPT !.rcvtimeo = IF tv = 0 THEN @ ELSE @ \cup {fd}],
          errnum |-> "OK"]

\* setsockopt(fd, SOL_SOCKET, SO_SNDTIMEO / SO_RCVTIMEO, tv): the option of
\* the socket becomes tv
SysSetsockopt(K, fd, option, tv) ==
    IF fd \notin K.open THEN [K |-> K, errnum |-> "EBADF"]
    ELSE IF option = "SO_SNDTIMEO"
    THEN [K |-> [K EXCEPT !.sndtimeo = IF tv = 0 THEN @ \ {fd} ELSE @ \cup {fd}],
          errnum |-> "OK"]
    ELSE [K |-> [K EXCEPT !.rcvtimeo = IF tv = 0 THEN @ \ {fd} ELSE @ \cup {fd}],
          errnum |-> "OK"]

\* the timeouts sendto and recvfrom on the descriptor wait for: zero is no
\* timeout
SndTimeo(K, fd) == IF fd \in K.sndtimeo THEN 1 ELSE 0
RcvTimeo(K, fd) == IF fd \in K.rcvtimeo THEN 1 ELSE 0

\* the socket a connected descriptor sends to
PeerOf(K, fd) == CHOOSE s \in K.peer[fd] : TRUE

\* sendto(fd, data, ...) may block: the receiver's buffer is full and no
\* send timeout is set
SendBlocks(K, fd, timeout) ==
    /\ fd \in K.open /\ fd \in K.conn /\ K.peer[fd] # {}
    /\ Len(K.queue[PeerOf(K, fd)]) >= MaxQueue
    /\ timeout = 0

SysSendto(K, fd, dgram, timeout) ==
    IF fd \notin K.open THEN [K |-> K, errnum |-> "EBADF"]
    ELSE IF fd \notin K.conn THEN [K |-> K, errnum |-> "ENOTCONN"]
    ELSE IF K.peer[fd] = {} THEN [K |-> K, errnum |-> "ECONNREFUSED"]
    ELSE IF Len(K.queue[PeerOf(K, fd)]) >= MaxQueue THEN [K |-> K, errnum |-> "EAGAIN"]
    ELSE [K |-> [K EXCEPT !.queue[PeerOf(K, fd)] = Append(@, dgram)], errnum |-> "OK"]

\* recvfrom(fd, ...) blocks: nothing is queued and no receive timeout is set
RecvBlocks(K, fd, timeout) ==
    fd \in K.open /\ K.queue[fd] = <<>> /\ timeout = 0

NoDgram == [bytes |-> <<>>, sent |-> <<>>]

SysRecvfrom(K, fd, timeout) ==
    IF fd \notin K.open THEN [K |-> K, dgram |-> NoDgram, errnum |-> "EBADF"]
    ELSE IF K.queue[fd] = <<>> THEN [K |-> K, dgram |-> NoDgram, errnum |-> "EAGAIN"]
    ELSE [K |-> [K EXCEPT !.queue[fd] = Tail(@)], dgram |-> Head(K.queue[fd]),
          errnum |-> "OK"]

(***************************************************************************)
(* The endpoint object.  An endpoint is the record of the members of       *)
(* UnixDomainSocket: m_name, m_channelSide, m_sockfd, m_sockAddr (its      *)
(* sun_path), m_maxMessageSize, and m_isInitialized and m_errorValue of    *)
(* the creation pattern base.  A member function is an operator from the   *)
(* endpoint, the kernel and the outcomes the platform decides to the       *)
(* endpoint and kernel it leaves, its return value, the system calls it    *)
(* made and whether it wrote to std::cerr.                                 *)
(***************************************************************************)

\* the members before a constructor body runs (the in-class initialisers
\* of the header; m_channelSide has none)
FreshEndpoint(side) ==
    [name |-> <<>>,
     channelSide |-> side,
     sockfd |-> INVALID_FD,
     sockAddr |-> <<>>,
     isInitialized |-> FALSE,
     errorValue |-> "NOT_INITIALIZED",
     maxMessageSize |-> MAX_MESSAGE_SIZE]

\* a variant of UnlinksOnClose that ignores the channel side
UnlinksOnCloseAnySide(e) == e.channelSide \in {"SERVER", "CLIENT"}

\* closeFd, line 173: only a server removes its path after the close
UnlinksOnClose(e) == e.channelSide = "SERVER"

\* closeFd, lines 166-187
closeFd(e, K, fileDescriptor, closeOutcome) ==
    LET closeCall == SysClose(K, fileDescriptor, closeOutcome)
    IN  IF closeCall.errnum = "OK"
        THEN [e |-> [e EXCEPT !.sockfd = INVALID_FD, !.isInitialized = FALSE],
              K |-> IF UnlinksOnClose(e)
                    THEN SysUnlink(closeCall.K, e.sockAddr).K
                    ELSE closeCall.K,
              ret |-> "OK",
              calls |-> IF UnlinksOnClose(e) THEN <<"close", "unlink">>
                        ELSE <<"close">>,
              diag |-> FALSE]
        ELSE [e |-> e,
              K |-> closeCall.K,
              ret |-> createErrorFromErrnum(closeCall.errnum).err,
              calls |-> <<"close">>,
              diag |-> createErrorFromErrnum(closeCall.errnum).diag]

\* destroy, lines 189-197
destroy(e, K, closeOutcome) ==
    IF e.isInitialized
    THEN closeFd(e, K, e.sockfd, closeOutcome)
    ELSE [e |-> e, K |-> K, ret |-> "OK", calls |-> <<>>, diag |-> FALSE]

\* the result of createSocket: value is the descriptor when ret = "OK"
SockResult(e, K, ret, value, calls, diag) ==
    [e |-> e, K |-> K, ret |-> ret, value |-> value, calls |-> calls, diag |-> diag]

\* a variant of UnlinkBeforeBind that leaves the path alone
UnlinkBeforeBindSkipped(K, path) == [K |-> K, errnum |-> "OK"]

\* createSocket, line 370: unlink(m_sockAddr.sun_path), its result unread
UnlinkBeforeBind(K, path) == SysUnlink(K, path)

\* createSocket, lines 366-393: the server side, after socket() returned sockfd
createSocketServer(e, K, sockfd, bindOutcome, closeOutcome) ==
    LET unlinkCall == UnlinkBeforeBind(K, e.sockAddr)
        bindCall == SysBind(unlinkCall.K, sockfd, e.sockAddr, bindOutcome)
        closeCall == closeFd(e, bindCall.K, sockfd, closeOutcome)
        bindError == createErrorFromErrnum(bindCall.errnum)
    IN  IF bindCall.errnum = "OK"
        THEN SockResult(e, bindCall.K, "OK", sockfd, <<"socket", "unlink", "bind">>, FALSE)
        ELSE IF closeCall.ret # "OK"
        THEN SockResult(closeCall.e, closeCall.K, closeCall.ret, INVALID_FD,
                        <<"socket", "unlink", "bind">> \o closeCall.calls, closeCall.diag)
        ELSE SockResult(closeCall.e, closeCall.K, bindError.err, INVALID_FD,
                        <<"socket", "unlink", "bind">> \o closeCall.calls, bindError.diag)

\* createSocket, lines 408-413 and 417-422: close the descriptor and return
\* the error of the close or else the error of the connect
createSocketClientFailed(e, K, sockfd, errnum, closeOutcome) ==
    LET closeCall == closeFd(e, K, sockfd, closeOutcome)
        connectError == createErrorFromErrnum(errnum)
    IN  IF closeCall.ret # "OK"
        THEN SockResult(closeCall.e, closeCall.K, closeCall.ret, INVALID_FD,
                        <<"socket", "connect">> \o closeCall.calls, closeCall.diag)
        ELSE SockResult(closeCall.e, closeCall.K, connectError.err, INVALID_FD,
                        <<"socket", "connect">> \o closeCall.calls, connectError.diag)

\* createSocket, lines 394-428: the client side.  ENOENT is an errno the
\* connect wrapper is told to ignore, so hasErrors() is false for it and
\* the code tests for it in a second branch.
createSocketClient(e, K, sockfd, closeOutcome) ==
    LET connectCall == SysConnect(K, sockfd, e.sockAddr)
        hasErrors == connectCall.errnum \notin {"OK", "ENOENT"}
    IN  IF hasErrors
        THEN createSocketClientFailed(e, connectCall.K, sockfd, connectCall.errnum,
                                      closeOutcome)
        ELSE IF connectCall.errnum = "ENOENT"
        THEN createSocketClientFailed(e, connectCall.K, sockfd, connectCall.errnum,
                                      closeOutcome)
        ELSE SockResult(e, connectCall.K, "OK", sockfd, <<"socket", "connect">>, FALSE)

\* createSocket, lines 339-429
createSocket(e, K, mode, bindOutcome, closeOutcome) ==
    LET maxDestinationSize == SunPathSize - 1
        zeroed == [e EXCEPT !.sockAddr = <<>>]
        named == [e EXCEPT !.sockAddr = e.name]
        socketCall == SysSocket(K)
        socketError == createErrorFromErrnum(socketCall.errnum)
    IN  IF Len(e.name) > maxDestinationSize
        THEN SockResult(zeroed, K, "INVALID_CHANNEL_NAME", INVALID_FD, <<>>, FALSE)
        ELSE IF mode = "NON_BLOCKING"
        THEN SockResult(named, K, "INVALID_ARGUMENTS", INVALID_FD, <<>>, FALSE)
        ELSE IF socketCall.errnum # "OK"
        THEN SockResult(named, K, socketError.err, INVALID_FD, <<"socket">>, socketError.diag)
        ELSE IF e.channelSide = "SERVER"
        THEN createSocketServer(named, socketCall.K, socketCall.ret, bindOutcome, closeOutcome)
        ELSE createSocketClient(named, socketCall.K, socketCall.ret, closeOutcome)

\* the result of a member function that returns no value
OpResult(e, K, ret, calls, diag) ==
    [e |-> e, K |-> K, ret |-> ret, calls |-> calls, diag |-> diag]

\* a variant of ConstructSucceeded that leaves m_errorValue as it was
ConstructSucceededKeepsError(e, sockfd) ==
    [e EXCEPT !.isInitialized = TRUE, !.sockfd = sockfd]

\* the constructor after createSocket succeeded, lines 86-91
ConstructSucceeded(e, sockfd) ==
    [e EXCEPT !.isInitialized = TRUE, !.errorValue = "UNDEFINED", !.sockfd = sockfd]

\* UnixDomainSocket(NoPathPrefix, name, mode, channelSide, maxMsgSize, ...),
\* lines 60-98; ret is the m_errorValue it leaves
Construct(K, name, mode, channelSide, maxMsgSize, bindOutcome, closeOutcome) ==
    LET this == [FreshEndpoint(channelSide) EXCEPT !.name = name]
        sized == [this EXCEPT !.maxMessageSize = maxMsgSize]
        createResult == createSocket(sized, K, mode, bindOutcome, closeOutcome)
    IN  IF ~isNameValid(name)
        THEN OpResult([this EXCEPT !.isInitialized = FALSE,
                                   !.errorValue = "INVALID_CHANNEL_NAME"],
                      K, "INVALID_CHANNEL_NAME", <<>>, FALSE)
        ELSE IF maxMsgSize > MAX_MESSAGE_SIZE
        THEN OpResult([this EXCEPT !.isInitialized = FALSE,
                                   !.errorValue = "MAX_MESSAGE_SIZE_EXCEEDED"],
                      K, "MAX_MESSAGE_SIZE_EXCEEDED", <<>>, FALSE)
        ELSE IF createResult.ret = "OK"
        THEN OpResult(ConstructSucceeded(createResult.e, createResult.value),
                      createResult.K,
                      ConstructSucceeded(createResult.e, createResult.value).errorValue,
                      createResult.calls, createResult.diag)
        ELSE OpResult([createResult.e EXCEPT !.isInitialized = FALSE,
                                             !.errorValue = createResult.ret],
                      createResult.K, createResult.ret, createResult.calls,
                      createResult.diag)

\* the name the prefixed constructor hands on, lines 44-52: an invalid name
\* as it is, a valid one behind PATH_PREFIX
PrefixedName(name) ==
    IF ~isNameValid(name) THEN name ELSE AppendTruncate(PATH_PREFIX, name)

\* UnixDomainSocket(name, mode, channelSide, maxMsgSize, ...), lines 37-58
ConstructPrefixed(K, name, mode, channelSide, maxMsgSize, bindOutcome, closeOutcome) ==
    Construct(K, PrefixedName(name), mode, channelSide, maxMsgSize, bindOutcome,
              closeOutcome)

\* the result of unlinkIfExists: value is the bool when ret = "OK"
UnlinkResult(K, ret, value, calls, diag) ==
    [K |-> K, ret |-> ret, value |-> value, calls |-> calls, diag |-> diag]

\* a variant of Unlinked that reports a removal whatever unlink found
UnlinkedAlways(errnum) == errnum = errnum

\* unlinkIfExists, line 158: whether a file was removed
Unlinked(errnum) == errnum # "ENOENT"

\* unlinkIfExists(NoPathPrefix, name), lines 144-164.  ENOENT is an errno
\* the unlink wrapper is told to ignore.
unlinkIfExistsNoPathPrefix(K, name, unlinkOutcome) ==
    LET unlinkCall == SysUnlinkOutcome(K, name, unlinkOutcome)
        hasErrors == unlinkCall.errnum \notin {"OK", "ENOENT"}
    IN  IF ~isNameValid(name)
        THEN UnlinkResult(K, "INVALID_CHANNEL_NAME", FALSE, <<>>, FALSE)
        ELSE IF ~hasErrors
        THEN UnlinkResult(unlinkCall.K, "OK", Unlinked(unlinkCall.errnum), <<"unlink">>, FALSE)
        ELSE UnlinkResult(unlinkCall.K, "INTERNAL_LOGIC_ERROR", FALSE, <<"unlink">>, FALSE)

\* unlinkIfExists(name), lines 139-142
unlinkIfExists(K, name, unlinkOutcome) ==
    unlinkIfExistsNoPathPrefix(K, AppendTruncate(PATH_PREFIX, name), unlinkOutcome)

\* UnixDomainSocket(), lines 31-35
DefaultConstruct(side) ==
    [FreshEndpoint(side) EXCEPT !.isInitialized = FALSE, !.errorValue = "NOT_INITIALIZED"]

\* operator=(UnixDomainSocket&&) for this != &other, lines 117-133: the
\* members of this after the call; cleaned is this after its destroy()
MoveInto(cleaned, other) ==
    [cleaned EXCEPT !.name = other.name,
                    !.channelSide = other.channelSide,
                    !.sockfd = other.sockfd,
                    !.sockAddr = other.sockAddr,
                    !.isInitialized = other.isInitialized,
                    !.errorValue = other.errorValue,
                    !.maxMessageSize = other.maxMessageSize]

\* a variant of MovedFrom without line 132
MovedFromStillInitialized(other) ==
    [other EXCEPT !.sockfd = INVALID_FD]

\* operator=(UnixDomainSocket&&), lines 128-133: the members of other
\* after the call
MovedFrom(other) ==
    [other EXCEPT !.sockfd = INVALID_FD, !.isInitialized = FALSE]

\* operator=(UnixDomainSocket&&), lines 113-137, for this != &other:
\* this is destroyed first; a failure of that destroy is written to
\* std::cerr and the members are taken over all the same
MoveAssign(this, other, K, closeOutcome) ==
    LET cleanup == destroy(this, K, closeOutcome)
    IN  [this |-> MoveInto(cleanup.e, other),
         other |-> MovedFrom(other),
         K |-> cleanup.K,
         ret |-> cleanup.ret,
         calls |-> cleanup.calls,
         diag |-> cleanup.diag \/ cleanup.ret # "OK"]

\* a variant of SentBytes that sends msg.size() bytes, without the NUL
SentBytesWithoutTerminator(msg) == msg

\* what sendto is handed: msg.c_str() and msg.size() + 1 bytes, line 252-253
SentBytes(msg) == Append(msg, NUL)

\* std::string(message), line 333: the characters before the first NUL of
\* the receive buffer.  Every datagram of a sender of this class ends with a
\* NUL and is shorter than the buffer, so the first NUL is one it received.
CString(buffer) ==
    IF \E i \in 1 .. Len(buffer) : buffer[i] = NUL
    THEN LET first == CHOOSE i \in 1 .. Len(buffer) :
                         /\ buffer[i] = NUL
                         /\ \A j \in 1 .. (i - 1) : buffer[j] # NUL
         IN  SubSeq(buffer, 1, first - 1)
    ELSE buffer

\* a variant of Received with a buffer one byte short of the smaller
\* maxMsgSize
ReceivedInSmallBuffer(bytes) ==
    IF Len(bytes) > 127 THEN SubSeq(bytes, 1, 127) ELSE bytes

\* the bytes recvfrom stores for a datagram when given MAX_MESSAGE_SIZE bytes
\* of buffer, line 309-318
Received(bytes) ==
    IF Len(bytes) > MAX_MESSAGE_SIZE THEN SubSeq(bytes, 1, MAX_MESSAGE_SIZE) ELSE bytes

\* a variant of SendOnServerSide that tests for the other side
SendOnClientSide(e) == e.channelSide = "CLIENT"

\* timedSend, line 214: sending is refused on the server side
SendOnServerSide(e) == e.channelSide = "SERVER"

\* timedSend, lines 206-267.  The object is const: only the kernel changes.
\* "BLOCKS" stands for the call that does not return: sendto waits.
timedSend(e, K, msg, timeout) ==
    LET setsockoptCall == SysSetsockopt(K, e.sockfd, "SO_SNDTIMEO", timeout)
        sendCall == SysSendto(setsockoptCall.K, e.sockfd,
                              [bytes |-> SentBytes(msg), sent |-> msg],
                              SndTimeo(setsockoptCall.K, e.sockfd))
    IN  IF Len(msg) >= e.maxMessageSize
        THEN OpResult(e, K, "MESSAGE_TOO_LONG", <<>>, FALSE)
        ELSE IF SendOnServerSide(e)
        THEN OpResult(e, K, "INTERNAL_LOGIC_ERROR", <<>>, TRUE)
        ELSE IF setsockoptCall.errnum # "OK"
        THEN OpResult(e, setsockoptCall.K, createErrorFromErrnum(setsockoptCall.errnum).err,
                      <<"setsockopt">>, createErrorFromErrnum(setsockoptCall.errnum).diag)
        ELSE IF SendBlocks(setsockoptCall.K, e.sockfd, SndTimeo(setsockoptCall.K, e.sockfd))
        THEN OpResult(e, setsockoptCall.K, "BLOCKS", <<"setsockopt", "sendto">>, FALSE)
        ELSE IF sendCall.errnum # "OK"
        THEN OpResult(e, sendCall.K, createErrorFromErrnum(sendCall.errnum).err,
                      <<"setsockopt", "sendto">>, createErrorFromErrnum(sendCall.errnum).diag)
        ELSE OpResult(e, sendCall.K, "OK", <<"setsockopt", "sendto">>, FALSE)

\* send, lines 199-204
send(e, K, msg) == timedSend(e, K, msg, 0)

\* the result of a receive: out is the payload when ret = "OK"
RecvResult(e, K, ret, out, calls, diag) ==
    [e |-> e, K |-> K, ret |-> ret, out |-> out, calls |-> calls, diag |-> diag]

\* timedReceive, lines 281-336.  EAGAIN is an errno the recvfrom wrapper is
\* told to ignore; the code tests for it in a second branch.  "BLOCKS"
\* stands for the call that does not return: recvfrom waits.
timedReceive(e, K, timeout) ==
    LET setsockoptCall == SysSetsockopt(K, e.sockfd, "SO_RCVTIMEO", timeout)
        recvCall == SysRecvfrom(setsockoptCall.K, e.sockfd,
                                RcvTimeo(setsockoptCall.K, e.sockfd))
        hasErrors == recvCall.errnum \notin {"OK", "EAGAIN"}
        recvError == createErrorFromErrnum(recvCall.errnum)
    IN  IF e.channelSide = "CLIENT"
        THEN RecvResult(e, K, "INTERNAL_LOGIC_ERROR", <<>>, <<>>, TRUE)
        ELSE IF setsockoptCall.errnum # "OK"
        THEN RecvResult(e, setsockoptCall.K,
                        createErrorFromErrnum(setsockoptCall.errnum).err, <<>>,
                        <<"setsockopt">>, createErrorFromErrnum(setsockoptCall.errnum).diag)
        ELSE IF RecvBlocks(setsockoptCall.K, e.sockfd, RcvTimeo(setsockoptCall.K, e.sockfd))
        THEN RecvResult(e, setsockoptCall.K, "BLOCKS", <<>>, <<"setsockopt", "recvfrom">>,
                        FALSE)
        ELSE IF hasErrors
        THEN RecvResult(e, recvCall.K, recvError.err, <<>>,
                        <<"setsockopt", "recvfrom">>, recvError.diag)
        ELSE IF recvCall.errnum = "EAGAIN"
        THEN RecvResult(e, recvCall.K, recvError.err, <<>>,
                        <<"setsockopt", "recvfrom">>, recvError.diag)
        ELSE RecvResult(e, recvCall.K, "OK", CString(Received(recvCall.dgram.bytes)),
                        <<"setsockopt", "recvfrom">>, FALSE)

\* receive, lines 269-278
receive(e, K) == timedReceive(e, K, 0)

(***************************************************************************)
(* The state.                                                              *)
(*   alive   the endpoint objects that exist                               *)
(*   ep      the members of each object                                    *)
(*   kernel  the kernel record                                             *)
(*   faults  the number of close() calls that have reported an error       *)
(*   hist    for each object, the last call that could change it:          *)
(*           "default" and "constructed" / "failed" for the constructors,  *)
(*           "movedTo" and "movedFrom" for the two sides of a move,        *)
(*           "destroyed" / "destroyFailed" for destroy(), "none" for an    *)
(*           object that does not exist                                    *)
(***************************************************************************)
VARIABLES alive, ep, kernel, faults, hist

vars == <<alive, ep, kernel, faults, hist>>

\* the outcomes the platform decides
CloseOutcomes == {"OK", "EIO", "EINTR"}
BindOutcomes == {"OK", "ENOMEM"}

Made(call, calls) == \E i \in 1 .. Len(calls) : calls[i] = call

\* an outcome other than "OK" is drawn only for a call that is made, and a
\* close() error only while the run has some left
Drawn(bindOutcome, closeOutcome, calls) ==
    /\ bindOutcome = "OK" \/ Made("bind", calls)
    /\ closeOutcome = "OK" \/ (Made("close", calls) /\ faults < MaxCloseErrors)
    /\ faults' = IF closeOutcome = "OK" THEN faults ELSE faults + 1

\* the objects are interchangeable: a constructor takes the first free one
FirstFree(o) == o \notin alive /\ \A p \in Obj \ alive : o <= p

\* the record of an object that does not exist
NoEndpoint == FreshEndpoint("CLIENT")

Init ==
    /\ alive = {}
    /\ ep = [o \in Obj |-> NoEndpoint]
    /\ kernel = InitKernel
    /\ faults = 0
    /\ hist = [o \in Obj |-> "none"]

\* UnixDomainSocket(NoPathPrefix, name, mode, channelSide, maxMsgSize)
ConstructAct(o) ==
    /\ FirstFree(o)
    /\ \E name \in Names, mode \in Modes, side \in Sides, maxMsgSize \in MsgSizes,
          bindOutcome \in BindOutcomes, closeOutcome \in CloseOutcomes :
          LET r == Construct(kernel, name, mode, side, maxMsgSize, bindOutcome, closeOutcome)
          IN  /\ Drawn(bindOutcome, closeOutcome, r.calls)
              /\ alive' = alive \cup {o}
              /\ ep' = [ep EXCEPT ![o] = r.e]
              /\ kernel' = r.K
              /\ hist' = [hist EXCEPT ![o] = IF r.ret = "UNDEFINED" THEN "constructed"
                                             ELSE "failed"]

\* UnixDomainSocket(); m_channelSide is left as it is found
DefaultConstructAct(o) ==
    /\ FirstFree(o)
    /\ \E side \in Sides :
          /\ alive' = alive \cup {o}
          /\ ep' = [ep EXCEPT ![o] = DefaultConstruct(side)]
          /\ hist' = [hist EXCEPT ![o] = "default"]
          /\ UNCHANGED <<kernel, faults>>

\* UnixDomainSocket(UnixDomainSocket&& other), lines 100-103: the new object
\* is not initialized, so its destroy() reads no other member
MoveConstructAct(o, src) ==
    /\ FirstFree(o)
    /\ src \in alive
    /\ \E closeOutcome \in CloseOutcomes :
          LET r == MoveAssign(NoEndpoint, ep[src], kernel, closeOutcome)
          IN  /\ Drawn("OK", closeOutcome, r.calls)
              /\ alive' = alive \cup {o}
              /\ ep' = [ep EXCEPT ![o] = r.this, ![src] = r.other]
              /\ kernel' = r.K
              /\ hist' = [hist EXCEPT ![o] = "movedTo", ![src] = "movedFrom"]

\* operator=(UnixDomainSocket&& other); assigning an object to itself does
\* nothing
MoveAssignAct(dst, src) ==
    /\ dst \in alive
    /\ src \in alive
    /\ dst # src
    /\ \E closeOutcome \in CloseOutcomes :
          LET r == MoveAssign(ep[dst], ep[src], kernel, closeOutcome)
          IN  /\ Drawn("OK", closeOutcome, r.calls)
              /\ alive' = alive
              /\ ep' = [ep EXCEPT ![dst] = r.this, ![src] = r.other]
              /\ kernel' = r.K
              /\ hist' = [hist EXCEPT ![dst] = "movedTo", ![src] = "movedFrom"]

\* destroy()
DestroyAct(o) ==
    /\ o \in alive
    /\ \E closeOutcome \in CloseOutcomes :
          LET r == destroy(ep[o], kernel, closeOutcome)
          IN  /\ Drawn("OK", closeOutcome, r.calls)
              /\ alive' = alive
              /\ ep' = [ep EXCEPT ![o] = r.e]
              /\ kernel' = r.K
              /\ hist' = [hist EXCEPT ![o] = IF r.ret = "OK" THEN "destroyed"
                                             ELSE "destroyFailed"]

\* ~UnixDomainSocket(), lines 105-111: destroy(), a diagnostic when it
\* failed, and the object is gone
DestructAct(o) ==
    /\ o \in alive
    /\ \E closeOutcome \in CloseOutcomes :
          LET r == destroy(ep[o], kernel, closeOutcome)
          IN  /\ Drawn("OK", closeOutcome, r.calls)
              /\ alive' = alive \ {o}
              /\ ep' = [ep EXCEPT ![o] = NoEndpoint]
              /\ kernel' = r.K
              /\ hist' = [hist EXCEPT ![o] = "none"]

\* send(msg); the call does not return while sendto blocks.  The object is
\* const: a step is a call that changed the kernel.
SendAct(o) ==
    /\ o \in alive
    /\ \E msg \in Messages :
          LET r == send(ep[o], kernel, msg)
          IN  /\ r.ret # "BLOCKS"
              /\ kernel' = r.K
              /\ UNCHANGED <<alive, ep, faults, hist>>

\* timedSend(msg, timeout)
TimedSendAct(o) ==
    /\ o \in alive
    /\ \E msg \in Messages, timeout \in Timeouts :
          LET r == timedSend(ep[o], kernel, msg, timeout)
          IN  /\ r.ret # "BLOCKS"
              /\ kernel' = r.K
              /\ UNCHANGED <<alive, ep, faults, hist>>

\* receive(); the call does not return while recvfrom blocks
ReceiveAct(o) ==
    /\ o \in alive
    /\ LET r == receive(ep[o], kernel)
       IN  /\ r.ret # "BLOCKS"
           /\ kernel' = r.K
           /\ UNCHANGED <<alive, ep, faults, hist>>

\* timedReceive(timeout)
TimedReceiveAct(o) ==
    /\ o \in alive
    /\ \E timeout \in Timeouts :
          LET r == timedReceive(ep[o], kernel, timeout)
          IN  /\ r.ret # "BLOCKS"
              /\ kernel' = r.K
              /\ UNCHANGED <<alive, ep, faults, hist>>

Next ==
    \E o \in Obj :
        \/ ConstructAct(o)
        \/ DefaultConstructAct(o)
        \/ DestroyAct(o)
        \/ DestructAct(o)
        \/ SendAct(o)
        \/ TimedSendAct(o)
        \/ ReceiveAct(o)
        \/ TimedReceiveAct(o)
        \/ \E src \in Obj : MoveConstructAct(o, src) \/ MoveAssignAct(o, src)

Spec == Init /\ [][Next]_vars

(***************************************************************************)
(* The prefixed names.  A second specification: the endpoints are made by  *)
(* the prefixed constructor and go away by their destructor, and the two   *)
(* variants of the static unlinkIfExists are called at any time.           *)
(***************************************************************************)
UnlinkOutcomes == {"OK", "EACCES"}

\* UnixDomainSocket(name, mode, channelSide, maxMsgSize)
ConstructPrefixedAct(o) ==
    /\ FirstFree(o)
    /\ \E name \in LogicalNames \cup {NameEmpty, NameShort}, mode \in Modes, side \in Sides,
          maxMsgSize \in MsgSizes, bindOutcome \in BindOutcomes,
          closeOutcome \in CloseOutcomes :
          LET r == ConstructPrefixed(kernel, name, mode, side, maxMsgSize, bindOutcome,
                                     closeOutcome)
          IN  /\ Drawn(bindOutcome, closeOutcome, r.calls)
              /\ alive' = alive \cup {o}
              /\ ep' = [ep EXCEPT ![o] = r.e]
              /\ kernel' = r.K
              /\ hist' = [hist EXCEPT ![o] = IF r.ret = "UNDEFINED" THEN "constructed"
                                             ELSE "failed"]

\* unlinkIfExists(NoPathPrefix, name)
UnlinkIfExistsNoPathPrefixAct ==
    /\ \E name \in Paths \cup {NameEmpty, NameShort}, unlinkOutcome \in UnlinkOutcomes :
          kernel' = unlinkIfExistsNoPathPrefix(kernel, name, unlinkOutcome).K
    /\ UNCHANGED <<alive, ep, faults, hist>>

\* unlinkIfExists(name)
UnlinkIfExistsAct ==
    /\ \E name \in LogicalNames \cup {NameEmpty, NameShort}, unlinkOutcome \in UnlinkOutcomes :
          kernel' = unlinkIfExists(kernel, name, unlinkOutcome).K
    /\ UNCHANGED <<alive, ep, faults, hist>>

PrefixNext ==
    \/ \E o \in Obj : ConstructPrefixedAct(o) \/ DestructAct(o)
    \/ UnlinkIfExistsNoPathPrefixAct
    \/ UnlinkIfExistsAct

PrefixSpec == Init /\ [][PrefixNext]_vars

(***************************************************************************)
(* A third specification, for the transfer between endpoints of different  *)
(* maxMsgSize: endpoints on one name are made with the smaller or with the *)
(* largest maxMsgSize, send and receive, and go away by their destructor.  *)
(***************************************************************************)
TransferSizes == {128, MAX_MESSAGE_SIZE}

\* the longest message timedSend accepts from an endpoint of the largest
\* maxMsgSize
MsgLongest == Fill(MAX_MESSAGE_SIZE - 1, 97)

\* UnixDomainSocket(NoPathPrefix, "/f", BLOCKING, channelSide, maxMsgSize)
ConstructSizedAct(o) ==
    /\ FirstFree(o)
    /\ \E side \in Sides, maxMsgSize \in TransferSizes :
          LET r == Construct(kernel, NameFoo, "BLOCKING", side, maxMsgSize, "OK", "OK")
          IN  /\ Drawn("OK", "OK", r.calls)
              /\ alive' = alive \cup {o}
              /\ ep' = [ep EXCEPT ![o] = r.e]
              /\ kernel' = r.K
              /\ hist' = [hist EXCEPT ![o] = IF r.ret = "UNDEFINED" THEN "constructed"
                                             ELSE "failed"]

TransferNext ==
    \E o \in Obj :
        \/ ConstructSizedAct(o)
        \/ SendAct(o)
        \/ ReceiveAct(o)
        \/ DestructAct(o)

TransferSpec == Init /\ [][TransferNext]_vars

(***************************************************************************)
(* Properties.  A property of a member function is stated in every         *)
(* reachable state for every argument and every outcome of the platform:   *)
(* the operator of the function is applied to the state, as the action of  *)
(* the function applies it.                                                *)
(***************************************************************************)
Ready(o) == o \in alive /\ ep[o].isInitialized
ReadyServer(o) == Ready(o) /\ ep[o].channelSide = "SERVER"
ReadyClient(o) == Ready(o) /\ ep[o].channelSide = "CLIENT"
NotReady(o) == o \in alive /\ ~ep[o].isInitialized

\* C1: the filesystem node at the bound path of a ready server endpoint
\* exists for as long as the endpoint is ready and stays the node of its
\* socket, whatever is done with other endpoints: nothing removes it and
\* nothing replaces it.  (Stated of a server whose descriptor is open: a
\* ready endpoint whose descriptor is gone is the matter of C4 and C8.)
C1_ServerNodeExists ==
    \A o \in Obj : ReadyServer(o) /\ ep[o].sockfd \in kernel.open =>
        /\ ep[o].sockAddr \in kernel.nodes
        /\ kernel.nodeSock[ep[o].sockAddr] = {ep[o].sockfd}

\* C2: on an endpoint that is not ready, send, timedSend, receive and
\* timedReceive return NOT_INITIALIZED and make no system call on the
\* descriptor.
C2_NotReadyIsNotInitialized ==
    \A o \in Obj : NotReady(o) =>
        /\ \A msg \in Messages, timeout \in Timeouts :
              /\ timedSend(ep[o], kernel, msg, timeout).ret = "NOT_INITIALIZED"
              /\ timedSend(ep[o], kernel, msg, timeout).calls = <<>>
              /\ send(ep[o], kernel, msg).ret = "NOT_INITIALIZED"
              /\ send(ep[o], kernel, msg).calls = <<>>
        /\ \A timeout \in Timeouts :
              /\ timedReceive(ep[o], kernel, timeout).ret = "NOT_INITIALIZED"
              /\ timedReceive(ep[o], kernel, timeout).calls = <<>>
              /\ receive(ep[o], kernel).ret = "NOT_INITIALIZED"
              /\ receive(ep[o], kernel).calls = <<>>

\* C3: on a ready client endpoint, send and timedSend of a message with
\* len(msg) + 1 >= max_message_size fail with MESSAGE_TOO_LONG and transmit
\* nothing (with max_message_size = 128, a payload of 127 bytes is rejected).
C3_TooLongIsRejected ==
    \A o \in Obj : ReadyClient(o) =>
        \A msg \in Messages, timeout \in Timeouts :
            Len(msg) + 1 >= ep[o].maxMessageSize =>
                /\ timedSend(ep[o], kernel, msg, timeout).ret = "MESSAGE_TOO_LONG"
                /\ timedSend(ep[o], kernel, msg, timeout).K = kernel
                /\ send(ep[o], kernel, msg).ret = "MESSAGE_TOO_LONG"
                /\ send(ep[o], kernel, msg).K = kernel

\* the ready endpoints that hold descriptor fd
Holders(fd) == {o \in Obj : Ready(o) /\ ep[o].sockfd = fd}

\* C4: every open descriptor is held by exactly one ready endpoint and
\* every ready endpoint holds an open descriptor: none is leaked, shared or
\* left to be closed again.
C4_DescriptorsAreOwned ==
    /\ \A fd \in kernel.open : Cardinality(Holders(fd)) = 1
    /\ \A o \in Obj : Ready(o) => ep[o].sockfd \in kernel.open

\* destroy() on e in kernel K does nothing and succeeds, whatever close
\* would report
DestroyIsNoOp(e, K) ==
    \A closeOutcome \in CloseOutcomes :
        /\ destroy(e, K, closeOutcome).ret = "OK"
        /\ destroy(e, K, closeOutcome).calls = <<>>
        /\ destroy(e, K, closeOutcome).e = e
        /\ destroy(e, K, closeOutcome).K = K

\* the move of the ready endpoint other into this leaves other not
\* initialized with the invalid descriptor, this with the members other had,
\* and a later destroy() of other without effect
MoveTransfers(this, other, K) ==
    \A closeOutcome \in CloseOutcomes :
        LET r == MoveAssign(this, other, K, closeOutcome)
        IN  /\ ~r.other.isInitialized
            /\ r.other.sockfd = INVALID_FD
            /\ r.this.name = other.name
            /\ r.this.channelSide = other.channelSide
            /\ r.this.sockfd = other.sockfd
            /\ r.this.maxMessageSize = other.maxMessageSize
            /\ r.this.isInitialized = other.isInitialized
            /\ r.this.errorValue = other.errorValue
            /\ DestroyIsNoOp(r.other, r.K)

\* C5: a ready endpoint that is moved from (into a new object or into
\* another object) is afterwards not initialized with the invalid
\* descriptor, its destination holds its previous name, role, descriptor,
\* max_message_size, initialization flag and last_error, and destroying it
\* later closes nothing and unlinks nothing.
C5_MoveLeavesSourceEmpty ==
    /\ \A src \in Obj : Ready(src) =>
          /\ MoveTransfers(NoEndpoint, ep[src], kernel)
          /\ \A dst \in alive \ {src} : MoveTransfers(ep[dst], ep[src], kernel)
    /\ \A o \in Obj : hist[o] = "movedFrom" =>
          /\ ~ep[o].isInitialized
          /\ ep[o].sockfd = INVALID_FD
          /\ DestroyIsNoOp(ep[o], kernel)

\* C5 witness: a ready endpoint was moved: the destination is ready
C5_Witness ==
    \E dst, src \in Obj :
        /\ hist[dst] = "movedTo" /\ Ready(dst)
        /\ hist[src] = "movedFrom" /\ src \in alive

\* C6: whatever the first destroy() returned, a second destroy() returns
\* success and does nothing: no close, no unlink, no member changed.
C6_SecondDestroyIsNoOp ==
    \A o \in Obj : hist[o] \in {"destroyed", "destroyFailed"} =>
        DestroyIsNoOp(ep[o], kernel)

\* no NUL inside the string
NoNul(msg) == \A i \in 1 .. Len(msg) : msg[i] # NUL

\* the client c is connected to the socket the server s holds
Connected(c, s) ==
    /\ ReadyClient(c) /\ ReadyServer(s)
    /\ ep[c].sockfd \in kernel.open /\ ep[s].sockfd \in kernel.open
    /\ kernel.peer[ep[c].sockfd] = {ep[s].sockfd}

C8_DescriptorValidIffReady ==
    \A o \in alive :
        /\ ep[o].isInitialized <=> ep[o].sockfd \in kernel.open
        /\ ~ep[o].isInitialized => ep[o].sockfd = INVALID_FD

\* the IpcChannelError values a failed initialization records
FailureReasons ==
    {"NOT_INITIALIZED", "INVALID_CHANNEL_NAME", "MAX_MESSAGE_SIZE_EXCEEDED",
     "INVALID_ARGUMENTS", "ACCESS_DENIED", "PROCESS_LIMIT", "SYSTEM_LIMIT",
     "OUT_OF_MEMORY", "CHANNEL_ALREADY_EXISTS", "INVALID_FILE_DESCRIPTOR",
     "NO_SUCH_CHANNEL", "CONNECTION_RESET_BY_PEER", "I_O_ERROR", "TIMEOUT",
     "INTERNAL_LOGIC_ERROR"}

\* a construction ended in one of the two outcomes
ConstructedOrFailed(e) ==
    \/ e.isInitialized /\ e.errorValue = "UNDEFINED"
    \/ ~e.isInitialized /\ e.errorValue \in FailureReasons

\* the outcomes of bind and of close a construction can meet: a construction
\* that fails for its arguments makes no system call, and a client does not
\* bind
PassesValidation(name, mode, maxMsgSize) ==
    isNameValid(name) /\ maxMsgSize <= MAX_MESSAGE_SIZE /\ mode = "BLOCKING"
BindOutcomesMet(name, mode, side, maxMsgSize) ==
    IF PassesValidation(name, mode, maxMsgSize) /\ side = "SERVER"
    THEN BindOutcomes ELSE {"OK"}
CloseOutcomesMet(name, mode, maxMsgSize) ==
    IF PassesValidation(name, mode, maxMsgSize) THEN CloseOutcomes ELSE {"OK"}

\* C9: a construction ends either with the endpoint ready and last_error
\* none (UNDEFINED), or with the endpoint not initialized and last_error the
\* reason of the failure; and a ready endpoint has last_error none in every
\* later state.
C9_ConstructionOutcome ==
    /\ \A name \in Names, mode \in Modes, side \in Sides, maxMsgSize \in MsgSizes :
          \A bindOutcome \in BindOutcomesMet(name, mode, side, maxMsgSize),
             closeOutcome \in CloseOutcomesMet(name, mode, maxMsgSize) :
              LET r == Construct(kernel, name, mode, side, maxMsgSize, bindOutcome,
                                 closeOutcome)
              IN  /\ ConstructedOrFailed(r.e)
                  /\ r.ret = r.e.errorValue
    /\ \A side \in Sides : ConstructedOrFailed(DefaultConstruct(side))
    /\ \A o \in alive :
          /\ hist[o] = "constructed" => ep[o].isInitialized /\ ep[o].errorValue = "UNDEFINED"
          /\ hist[o] \in {"failed", "default"} =>
                 ~ep[o].isInitialized /\ ep[o].errorValue \in FailureReasons
          /\ ep[o].isInitialized => ep[o].errorValue = "UNDEFINED"

\* C9 witness: one construction succeeded and another failed for want of a
\* server, and a ready endpoint that was moved is still without error
C9_Witness ==
    \E a, b \in alive :
        /\ hist[a] = "movedTo" /\ ep[a].isInitialized /\ ep[a].errorValue = "UNDEFINED"
        /\ hist[b] = "failed" /\ ep[b].errorValue = "NO_SUCH_CHANNEL"

\* C10: no member function called on a client endpoint, no construction of
\* a client endpoint and no move of a client endpoint (into a new object, or
\* into an object that is not a ready server, whose own destruction unlinks)
\* creates or removes a filesystem entry.
C10_ClientLeavesFilesystem ==
    /\ \A name \in Names, mode \in Modes, maxMsgSize \in MsgSizes,
          closeOutcome \in CloseOutcomes :
          Construct(kernel, name, mode, "CLIENT", maxMsgSize, "OK", closeOutcome).K.nodes
              = kernel.nodes
    /\ \A o \in alive : ep[o].channelSide = "CLIENT" =>
          /\ \A closeOutcome \in CloseOutcomes :
                /\ destroy(ep[o], kernel, closeOutcome).K.nodes = kernel.nodes
                /\ \A src \in alive \ {o} :
                      MoveAssign(ep[o], ep[src], kernel, closeOutcome).K.nodes = kernel.nodes
                /\ MoveAssign(NoEndpoint, ep[o], kernel, closeOutcome).K.nodes = kernel.nodes
                /\ \A dst \in alive \ {o} : ~ReadyServer(dst) =>
                      MoveAssign(ep[dst], ep[o], kernel, closeOutcome).K.nodes = kernel.nodes
          /\ \A msg \in Messages, timeout \in Timeouts :
                /\ timedSend(ep[o], kernel, msg, timeout).K.nodes = kernel.nodes
                /\ send(ep[o], kernel, msg).K.nodes = kernel.nodes
          /\ \A timeout \in Timeouts :
                /\ timedReceive(ep[o], kernel, timeout).K.nodes = kernel.nodes
                /\ receive(ep[o], kernel).K.nodes = kernel.nodes

\* C10 witness: a ready client endpoint was destroyed while a server's node
\* exists
C10_Witness ==
    \E o \in alive :
        /\ ep[o].channelSide = "CLIENT"
        /\ hist[o] = "destroyed"
        /\ ep[o].errorValue = "UNDEFINED"
        /\ ep[o].sockAddr \in kernel.nodes


\* no socket listens at path p: no node, or a node that no socket is bound to
NoListener(K, p) == p \notin K.nodes \/ K.nodeSock[p] = {}

\* C11: constructing a client on a name at which no server listens leaves
\* the endpoint not initialized with last_error NO_SUCH_CHANNEL, and the
\* descriptor made for the attempt is closed when the construction returns.
C11_NoServerIsNoSuchChannel ==
    \A name \in Paths, maxMsgSize \in {128}, closeOutcome \in CloseOutcomes :
        NoListener(kernel, name) /\ kernel.open # Fd =>
            LET r == Construct(kernel, name, "BLOCKING", "CLIENT", maxMsgSize, "OK",
                               closeOutcome)
            IN  /\ ~r.e.isInitialized
                /\ r.e.errorValue = "NO_SUCH_CHANNEL"
                /\ Made("socket", r.calls) /\ Made("close", r.calls)
                /\ r.K.open = kernel.open

\* the node at path p was left behind: it exists and no socket is bound to it
Stale(K, p) == p \in K.nodes /\ K.nodeSock[p] = {}

\* C12: when the node of a server that went away without destruction is left
\* at a path, constructing a new server on that path succeeds: the path is
\* unlinked before the bind, and the new endpoint is ready and bound to it.
C12_StaleNodeIsReclaimed ==
    \A name \in Paths, closeOutcome \in CloseOutcomes :
        Stale(kernel, name) /\ kernel.open # Fd =>
            LET r == Construct(kernel, name, "BLOCKING", "SERVER", 128, "OK", closeOutcome)
            IN  /\ r.e.isInitialized
                /\ r.ret = "UNDEFINED"
                /\ r.calls = <<"socket", "unlink", "bind">>
                /\ r.e.sockAddr = name
                /\ r.e.sockfd \in r.K.open
                /\ name \in r.K.nodes
                /\ r.K.nodeSock[name] = {r.e.sockfd}

\* C12 witness: a stale node and a free descriptor, and the construction of
\* a server at the node's path ends ready
C12_Witness ==
    \E name \in Paths :
        /\ Stale(kernel, name) /\ kernel.open # Fd
        /\ Construct(kernel, name, "BLOCKING", "SERVER", 128, "OK", "OK").e.isInitialized

\* C13: on a ready server, send and timedSend of a message within the size
\* bound return INTERNAL_LOGIC_ERROR, write a diagnostic and transmit
\* nothing; on a ready client, receive and timedReceive return
\* INTERNAL_LOGIC_ERROR, write a diagnostic and take no datagram.
C13_RoleAsymmetry ==
    /\ \A o \in Obj : ReadyServer(o) =>
          \A msg \in Messages, timeout \in Timeouts :
              Len(msg) + 1 < ep[o].maxMessageSize =>
                  /\ timedSend(ep[o], kernel, msg, timeout)
                         = OpResult(ep[o], kernel, "INTERNAL_LOGIC_ERROR", <<>>, TRUE)
                  /\ send(ep[o], kernel, msg)
                         = OpResult(ep[o], kernel, "INTERNAL_LOGIC_ERROR", <<>>, TRUE)
    /\ \A o \in Obj : ReadyClient(o) =>
          \A timeout \in Timeouts :
              /\ timedReceive(ep[o], kernel, timeout)
                     = RecvResult(ep[o], kernel, "INTERNAL_LOGIC_ERROR", <<>>, <<>>, TRUE)
              /\ receive(ep[o], kernel)
                     = RecvResult(ep[o], kernel, "INTERNAL_LOGIC_ERROR", <<>>, <<>>, TRUE)

\* C13 witness: a ready client connected to a ready server at which a
\* datagram waits; the server's send and the client's receive are refused
C13_Witness ==
    \E c, s \in Obj :
        /\ Connected(c, s)
        /\ kernel.queue[ep[s].sockfd] # <<>>
        /\ send(ep[s], kernel, MsgA).ret = "INTERNAL_LOGIC_ERROR"
        /\ receive(ep[c], kernel).ret = "INTERNAL_LOGIC_ERROR"

\* a server that waits at its socket: ready, its descriptor open, no
\* datagram queued
WaitsInVain(o) ==
    /\ ReadyServer(o)
    /\ ep[o].sockfd \in kernel.open
    /\ kernel.queue[ep[o].sockfd] = <<>>

\* C14: timedReceive with a timeout other than zero on a ready server at
\* whose socket no datagram arrives returns TIMEOUT without a diagnostic and
\* leaves the endpoint and its descriptor as they were (of the kernel only
\* the receive timeout of the socket is set), so that a receive after a
\* later send succeeds.
C14_ReceiveTimesOut ==
    \A o \in Obj, timeout \in Timeouts \ {0} : WaitsInVain(o) =>
        LET r == timedReceive(ep[o], kernel, timeout)
            later == [kernel EXCEPT !.queue[ep[o].sockfd] =
                         <<[bytes |-> SentBytes(MsgA), sent |-> MsgA]>>]
        IN  /\ r.ret = "TIMEOUT"
            /\ ~r.diag
            /\ r.calls = <<"setsockopt", "recvfrom">>
            /\ r.e = ep[o]
            /\ r.K = [kernel EXCEPT !.rcvtimeo = @ \cup {ep[o].sockfd}]
            /\ timedReceive(r.e, later, timeout).ret = "OK"
            /\ timedReceive(r.e, later, timeout).out = MsgA

\* C14 witness: a ready server with a connected client and an empty queue,
\* whose timedReceive returns TIMEOUT
C14_Witness ==
    \E c, s \in Obj :
        /\ Connected(c, s)
        /\ WaitsInVain(s)
        /\ timedReceive(ep[s], kernel, 1).ret = "TIMEOUT"

\* C15: the constructor validates before it acts, in the order name, size,
\* mode: a name shorter than SHORTEST_VALID_NAME or longer than
\* LONGEST_VALID_NAME gives INVALID_CHANNEL_NAME whatever the other
\* arguments, else a maxMsgSize above MAX_MESSAGE_SIZE gives
\* MAX_MESSAGE_SIZE_EXCEEDED, else NON_BLOCKING gives INVALID_ARGUMENTS; in
\* the three cases no system call is made and the kernel is unchanged.
C15_ValidationOrder ==
    \A name \in Names \cup {NameShort}, mode \in Modes, side \in Sides,
       maxMsgSize \in MsgSizes, bindOutcome \in BindOutcomes,
       closeOutcome \in CloseOutcomes :
        LET r == Construct(kernel, name, mode, side, maxMsgSize, bindOutcome, closeOutcome)
            p == ConstructPrefixed(kernel, name, mode, side, maxMsgSize, bindOutcome,
                                   closeOutcome)
            badName == Len(name) < SHORTEST_VALID_NAME \/ Len(name) > LONGEST_VALID_NAME
            badSize == maxMsgSize > MAX_MESSAGE_SIZE
            badMode == mode = "NON_BLOCKING"
            expected == IF badName THEN "INVALID_CHANNEL_NAME"
                        ELSE IF badSize THEN "MAX_MESSAGE_SIZE_EXCEEDED"
                        ELSE "INVALID_ARGUMENTS"
        IN  badName \/ badSize \/ badMode =>
                /\ r.ret = expected /\ r.e.errorValue = expected
                /\ ~r.e.isInitialized /\ r.e.sockfd = INVALID_FD
                /\ r.calls = <<>> /\ r.K = kernel
                /\ p.ret = expected /\ ~p.e.isInitialized
                /\ p.calls = <<>> /\ p.K = kernel

\* C15 witness: constructions failed for the size and for the mode while a
\* server's node exists, and no descriptor but the server's was made
C15_Witness ==
    \E a \in alive :
        /\ hist[a] = "failed"
        /\ ep[a].errorValue \in {"MAX_MESSAGE_SIZE_EXCEEDED", "INVALID_ARGUMENTS"}
        /\ ep[a].channelSide = "SERVER"
        /\ ep[a].name \in kernel.nodes
        /\ Cardinality(kernel.open) = 1

\* C16: unlinkIfExists on a valid name returns true when a node existed at
\* the path and was removed, false when there was none, and
\* INTERNAL_LOGIC_ERROR when unlink failed otherwise; after true or false
\* no node exists at the path.
C16_UnlinkIfExists ==
    /\ \A name \in Paths, unlinkOutcome \in UnlinkOutcomes :
          LET r == unlinkIfExistsNoPathPrefix(kernel, name, unlinkOutcome)
          IN  /\ name \in kernel.nodes /\ unlinkOutcome = "OK" =>
                     r.ret = "OK" /\ r.value /\ r.K.nodes = kernel.nodes \ {name}
              /\ name \notin kernel.nodes =>
                     r.ret = "OK" /\ ~r.value /\ r.K = kernel
              /\ name \in kernel.nodes /\ unlinkOutcome # "OK" =>
                     r.ret = "INTERNAL_LOGIC_ERROR" /\ r.K = kernel
              /\ r.ret = "OK" => name \notin r.K.nodes
    /\ \A name \in {LogicalAb}, unlinkOutcome \in UnlinkOutcomes :
          LET r == unlinkIfExists(kernel, name, unlinkOutcome)
              path == PATH_PREFIX \o name
          IN  /\ path \in kernel.nodes /\ unlinkOutcome = "OK" =>
                     r.ret = "OK" /\ r.value /\ r.K.nodes = kernel.nodes \ {path}
              /\ path \notin kernel.nodes =>
                     r.ret = "OK" /\ ~r.value /\ r.K = kernel
              /\ path \in kernel.nodes /\ unlinkOutcome # "OK" =>
                     r.ret = "INTERNAL_LOGIC_ERROR" /\ r.K = kernel
              /\ r.ret = "OK" => path \notin r.K.nodes

\* C16 witness: the node of a ready server on "ab" is gone, so that
\* unlinkIfExists("ab") returns false, while another node exists, for which
\* it returns true
C16_Witness ==
    \E o \in Obj, other \in Paths :
        /\ ReadyServer(o) /\ ep[o].sockfd \in kernel.open
        /\ ep[o].sockAddr = PATH_PREFIX \o LogicalAb
        /\ ep[o].sockAddr \notin kernel.nodes
        /\ unlinkIfExists(kernel, LogicalAb, "OK").value = FALSE
        /\ other \in kernel.nodes
        /\ unlinkIfExistsNoPathPrefix(kernel, other, "OK").value = TRUE

\* C17: destroy on a ready endpoint closes the descriptor, on the server
\* side unlinks the path after the close, and leaves the endpoint not ready;
\* an error of the close is translated and returned.
C17_DestroyClosesThenUnlinks ==
    \A o \in Obj, closeOutcome \in CloseOutcomes : Ready(o) =>
        LET r == destroy(ep[o], kernel, closeOutcome)
            closeCall == SysClose(kernel, ep[o].sockfd, closeOutcome)
        IN  /\ r.calls = IF ep[o].channelSide = "SERVER" /\ r.ret = "OK"
                         THEN <<"close", "unlink">> ELSE <<"close">>
            /\ ep[o].sockfd \notin r.K.open
            /\ ~r.e.isInitialized
            /\ r.e.sockfd = INVALID_FD
            /\ r.ret = IF closeCall.errnum = "OK" THEN "OK"
                       ELSE ErrnumError(closeCall.errnum)

\* the bound path of a ready endpoint made by the prefixed constructor from
\* the logical name: PATH_PREFIX and the complete name
BoundAtPrefixed(r, name) ==
    r.e.isInitialized => r.e.sockAddr = PATH_PREFIX \o name /\ r.e.name = PATH_PREFIX \o name

\* C18: for every valid logical name the prefixed constructor binds the
\* endpoint at PATH_PREFIX followed by the complete name, so that two valid
\* names never give the same path; when the prefixed path does not fit, the
\* construction fails with INVALID_CHANNEL_NAME.
C18_PrefixedPathIsComplete ==
    \A n1, n2 \in LogicalNames, side \in Sides, bindOutcome \in BindOutcomes,
       closeOutcome \in CloseOutcomes :
        LET r1 == ConstructPrefixed(kernel, n1, "BLOCKING", side, 128, bindOutcome,
                                    closeOutcome)
        IN  /\ BoundAtPrefixed(r1, n1)
            /\ n1 # n2 => PrefixedName(n1) # PrefixedName(n2)
            /\ Len(PATH_PREFIX) + Len(n1) > UdsNameCapacity =>
                   r1.ret = "INVALID_CHANNEL_NAME" /\ r1.calls = <<>>

\* C19: both variants of unlinkIfExists apply the validation of the
\* constructor: for a name isNameValid rejects (the empty name handed to the
\* prefixed variant too) they return INVALID_CHANNEL_NAME and unlink nothing.
C19_UnlinkIfExistsValidates ==
    \A name \in {NameEmpty, NameShort}, unlinkOutcome \in UnlinkOutcomes :
        ~isNameValid(name) =>
            /\ unlinkIfExistsNoPathPrefix(kernel, name, unlinkOutcome)
                   = UnlinkResult(kernel, "INVALID_CHANNEL_NAME", FALSE, <<>>, FALSE)
            /\ unlinkIfExists(kernel, name, unlinkOutcome).ret = "INVALID_CHANNEL_NAME"
            /\ unlinkIfExists(kernel, name, unlinkOutcome).calls = <<>>
            /\ unlinkIfExists(kernel, name, unlinkOutcome).K = kernel

\* the result r came with a diagnostic when it is INTERNAL_LOGIC_ERROR
Diagnosed(r) == r.ret = "INTERNAL_LOGIC_ERROR" => r.diag

\* C20: every operation that returns INTERNAL_LOGIC_ERROR has written a
\* diagnostic before it returns.
C20_InternalLogicErrorIsDiagnosed ==
    /\ \A o \in alive :
          /\ \A msg \in Messages, timeout \in Timeouts :
                Diagnosed(timedSend(ep[o], kernel, msg, timeout))
          /\ \A timeout \in Timeouts : Diagnosed(timedReceive(ep[o], kernel, timeout))
          /\ \A closeOutcome \in CloseOutcomes : Diagnosed(destroy(ep[o], kernel, closeOutcome))
    /\ \A name \in Names, mode \in Modes, side \in Sides, maxMsgSize \in MsgSizes,
          bindOutcome \in BindOutcomes, closeOutcome \in CloseOutcomes :
          Diagnosed(Construct(kernel, name, mode, side, maxMsgSize, bindOutcome,
                              closeOutcome))
    /\ \A name \in Paths \cup LogicalNames, unlinkOutcome \in UnlinkOutcomes :
          /\ Diagnosed(unlinkIfExistsNoPathPrefix(kernel, name, unlinkOutcome))
          /\ Diagnosed(unlinkIfExists(kernel, name, unlinkOutcome))

\* the error kind the table of the errno mapping gives
TableKind(errnum) ==
    IF errnum = "EACCES" THEN "ACCESS_DENIED"
    ELSE IF errnum \in {"EAFNOSUPPORT", "EINVAL", "EPROTONOSUPPORT", "ENOPROTOOPT"}
    THEN "INVALID_ARGUMENTS"
    ELSE IF errnum = "EMFILE" THEN "PROCESS_LIMIT"
    ELSE IF errnum = "ENFILE" THEN "SYSTEM_LIMIT"
    ELSE IF errnum \in {"ENOBUFS", "ENOMEM"} THEN "OUT_OF_MEMORY"
    ELSE IF errnum = "EADDRINUSE" THEN "CHANNEL_ALREADY_EXISTS"
    ELSE IF errnum \in {"EBADF", "ENOTSOCK"} THEN "INVALID_FILE_DESCRIPTOR"
    ELSE IF errnum \in {"EADDRNOTAVAIL", "EFAULT", "ELOOP", "ENAMETOOLONG", "ENOTDIR",
                        "EROFS"}
    THEN "INVALID_CHANNEL_NAME"
    ELSE IF errnum \in {"ENOENT", "ECONNREFUSED"} THEN "NO_SUCH_CHANNEL"
    ELSE IF errnum = "ECONNRESET" THEN "CONNECTION_RESET_BY_PEER"
    ELSE IF errnum = "EIO" THEN "I_O_ERROR"
    ELSE IF errnum \in {"EWOULDBLOCK", "EAGAIN"} THEN "TIMEOUT"
    ELSE "INTERNAL_LOGIC_ERROR"

\* C21: createErrorFromErrnum gives for every errno the error kind of the
\* table, INTERNAL_LOGIC_ERROR for every errno the table does not name
\* (EINTR among them), and writes a diagnostic in that last case only; the
\* error value of an endpoint whose construction failed is one of the kinds.
C21_ErrnoTable ==
    /\ \A errnum \in Errnos :
          /\ createErrorFromErrnum(errnum).err = TableKind(errnum)
          /\ createErrorFromErrnum(errnum).diag
                 <=> (TableKind(errnum) = "INTERNAL_LOGIC_ERROR")
    /\ createErrorFromErrnum("EINTR").err = "INTERNAL_LOGIC_ERROR"
    /\ \A name \in Paths, side \in Sides, bindOutcome \in BindOutcomes,
          closeOutcome \in CloseOutcomes :
          LET r == Construct(kernel, name, "BLOCKING", side, 128, bindOutcome, closeOutcome)
          IN  r.ret # "UNDEFINED" =>
                  /\ r.ret \in {TableKind(errnum) : errnum \in Errnos}
                  /\ r.ret = "INTERNAL_LOGIC_ERROR" => r.diag

\* C21 witness: one construction failed with the translation of ENOMEM and
\* another with the translation of an errno of the catch-all branch
C21_Witness ==
    \E a, b \in alive :
        /\ hist[a] = "failed" /\ ep[a].errorValue = createErrorFromErrnum("ENOMEM").err
        /\ hist[b] = "failed" /\ ep[b].errorValue = createErrorFromErrnum("EINTR").err

\* the kernel K with the two timeouts of descriptor fd as an earlier timed
\* call with timeout t left them
LeftBy(K, fd, t) ==
    [K EXCEPT !.sndtimeo = IF t = 0 THEN @ \ {fd} ELSE @ \cup {fd},
              !.rcvtimeo = IF t = 0 THEN @ \ {fd} ELSE @ \cup {fd}]

\* C22: send is timedSend with a zero timeout and receive is timedReceive
\* with a zero timeout; a call that reaches its system call has set the
\* timeout of the socket to its own value, so that its result does not
\* depend on the timeout an earlier call left; and after a timedReceive
\* with a timeout other than zero a receive on an empty queue waits and does
\* not return TIMEOUT (likewise a send to a full queue after a timedSend).
C22_TimeoutIsPerCall ==
    \A o \in alive :
        /\ \A msg \in Messages :
              send(ep[o], kernel, msg) = timedSend(ep[o], kernel, msg, 0)
        /\ receive(ep[o], kernel) = timedReceive(ep[o], kernel, 0)
        /\ \A t \in Timeouts, left \in Timeouts :
              LET K == LeftBy(kernel, ep[o].sockfd, left)
                  got == timedReceive(ep[o], K, t)
              IN  /\ Made("recvfrom", got.calls) => RcvTimeo(got.K, ep[o].sockfd) = t
                  /\ got.ret = timedReceive(ep[o], kernel, t).ret
                  /\ got.out = timedReceive(ep[o], kernel, t).out
                  /\ \A msg \in Messages :
                        LET sent == timedSend(ep[o], K, msg, t)
                        IN  /\ Made("sendto", sent.calls) =>
                                   SndTimeo(sent.K, ep[o].sockfd) = t
                            /\ sent.ret = timedSend(ep[o], kernel, msg, t).ret
        /\ \A t \in Timeouts \ {0} :
              LET timed == timedReceive(ep[o], kernel, t)
                  after == receive(timed.e, timed.K)
              IN  /\ after.ret # "TIMEOUT"
                  /\ timed.ret = "TIMEOUT" => after.ret = "BLOCKS"
        /\ \A t \in Timeouts \ {0}, msg \in Messages :
              LET timed == timedSend(ep[o], kernel, msg, t)
                  after == send(timed.e, timed.K, msg)
              IN  /\ after.ret # "TIMEOUT"
                  /\ timed.ret = "TIMEOUT" => after.ret = "BLOCKS"

\* C22 witness: a timedReceive with a timeout other than zero has left its
\* timeout on the socket of a ready server whose queue is empty, and
\* receive() on it waits
C22_Witness ==
    \E s \in Obj :
        /\ WaitsInVain(s)
        /\ ep[s].sockfd \in kernel.rcvtimeo
        /\ timedReceive(ep[s], kernel, 1).ret = "TIMEOUT"
        /\ receive(ep[s], kernel).ret = "BLOCKS"

\* C23: receive and timedReceive do not consult the maxMsgSize of their own
\* endpoint: a ready server made with the smaller maxMsgSize m, to which a
\* client made with a larger one sends a payload of length L with
\* m <= L + 1 <= MAX_MESSAGE_SIZE, returns the payload in full; and the
\* result of a receive is the same whatever the maxMsgSize of the receiver.
C23_ReceiveIgnoresOwnSize ==
    /\ \A c, s \in Obj :
          Connected(c, s) /\ kernel.queue[ep[s].sockfd] = <<>>
              /\ ep[c].maxMessageSize > ep[s].maxMessageSize =>
              \A p \in Messages \cup {MsgLongest} :
                  LET sent == send(ep[c], kernel, p)
                      got == receive(ep[s], sent.K)
                  IN  ep[s].maxMessageSize <= Len(p) + 1 /\ Len(p) + 1 <= MAX_MESSAGE_SIZE =>
                          /\ sent.ret = "OK"
                          /\ got.ret = "OK"
                          /\ got.out = p
                          /\ Len(got.out) + 1 >= ep[s].maxMessageSize
    /\ \A s \in Obj, t \in Timeouts, m \in TransferSizes :
          ReadyServer(s) /\ ep[s].sockfd \in kernel.open
              /\ kernel.queue[ep[s].sockfd] # <<>> =>
              LET got == timedReceive(ep[s], kernel, t)
                  other == timedReceive([ep[s] EXCEPT !.maxMessageSize = m], kernel, t)
              IN  /\ got.ret = "OK"
                  /\ got.out = Head(kernel.queue[ep[s].sockfd]).sent
                  /\ other.ret = got.ret /\ other.out = got.out /\ other.K = got.K

\* C23 witness: at a ready server made with maxMsgSize 128 waits a datagram
\* of 129 bytes, sent by a client made with the largest maxMsgSize, and
\* receive() returns its 128 characters
C23_Witness ==
    \E c, s \in Obj :
        /\ Connected(c, s)
        /\ ep[s].maxMessageSize = 128
        /\ ep[c].maxMessageSize = MAX_MESSAGE_SIZE
        /\ kernel.queue[ep[s].sockfd] # <<>>
        /\ Len(Head(kernel.queue[ep[s].sockfd]).bytes) = 129
        /\ receive(ep[s], kernel).ret = "OK"
        /\ receive(ep[s], kernel).out = Msg128

=============================================================================
